---------------------------- MODULE Spec2Model ----------------------------
(***************************************************************************)
(* A model of task_set/tasks/utils.py: the samplers that turn a random     *)
(* source into task configurations, and the get_* functions that turn a    *)
(* configuration into runtime objects.                                     *)
(*                                                                         *)
(* Conventions of the model                                                *)
(*  - Python's None is the empty tuple <<>>, a present scalar v is <<v>>.   *)
(*  - A float is a whole number of grid units: FloatScale units make 1.0.   *)
(*  - The random source (np.random.RandomState) is a deterministic         *)
(*    generator: a state, stepped once per draw, whose top RngBits bits    *)
(*    are the word the draw is computed from.                              *)
(*  - np.exp(np.log(x)) is not exact in floating point                     *)
(*    (math.exp(math.log(10.0)) = 10.000000000000002,                      *)
(*     math.exp(math.log(128.0)) = 127.99999999999997): the error of the   *)
(*    build's libm is the variable fperr, a number of grid units.          *)
(*  - A record lists its fields in the order the names first appear in    *)
(*    the module, the order TLC keeps them in, and a dict is built with    *)
(*    SetKey: TLC's workers then never reorder a value they share.          *)
(***************************************************************************)
EXTENDS Integers, Sequences, FiniteSets, TLC

VARIABLES
  rng,        \* the caller's random source: [state, log of the draws made]
  fperr,      \* rounding error of exp(log(.)) on this build, in grid units
  dictOrder,  \* how this interpreter iterates a mapping (a rotation)
  op,         \* the last operation called
  origin,     \* where its argument came from: "sampled", "stored", "input"
  arg,        \* the argument of the last operation
  out,        \* what the last operation returned or raised
  rng2,       \* a second random source (a second run)
  dictOrder2, \* the second run's mapping iteration order
  out2,       \* the second run's result
  heap        \* the example records and image tensors of the caller

vars == <<rng, fperr, dictOrder, op, origin, arg, out, rng2, dictOrder2, out2, heap>>

-----------------------------------------------------------------------------
(* Bounds of the model *)

\* bits of a random word: a draw takes one of 2^RngBits values
RngBits == 4
\* bits of the generator's state: 2^StateBits seeds
StateBits == 7
\* grid units per 1.0 of a modelled float
FloatScale == 8
\* largest rounding error of exp(log(.)), in grid units
MaxUlpErr == 1
\* largest rotation of a mapping's iteration order
MaxRot == 1
\* largest bound of the generic (low, high) pairs tried on the scalar samplers
MaxBound == 4

WordMod == 2 ^ RngBits
StateMod == 2 ^ StateBits

None == <<>>
Some(v) == <<v>>
IsNone(x) == x = <<>>

Min(a, b) == IF a < b THEN a ELSE b

-----------------------------------------------------------------------------
(* The random source *)

Seeds == 0 .. (StateMod - 1)

RandomState(seed) == [state |-> seed, log |-> <<>>]

\* one step of the generator (a full-period congruential step)
RngStep(s) == (s * 37 + 11) % StateMod

\* the word a draw reads: the top RngBits bits of the stepped state
Word(s) == s \div (2 ^ (StateBits - RngBits))

\* one draw of the given kind: the word read and the source after it
Draw(r, kind) ==
  LET s == RngStep(r.state)
  IN  [rng |-> [state |-> s, log |-> Append(r.log, kind)], word |-> Word(s)]

\* the index a uniform choice among n entries takes for a word
UniformIndex(n, word) == ((word * n) \div WordMod) + 1

\* rng.choice(seq): a uniform index into seq
Choice(r, seq) ==
  LET d == Draw(r, "randint")
  IN  [rng |-> d.rng, val |-> seq[UniformIndex(Len(seq), d.word)]]

RECURSIVE SumSeq(_)
SumSeq(s) == IF s = <<>> THEN 0 ELSE Head(s) + SumSeq(Tail(s))

\* the cumulative sum of the first i weights
RECURSIVE CumSum(_, _)
CumSum(weights, i) == IF i = 0 THEN 0 ELSE weights[i] + CumSum(weights, i - 1)

\* rng.choice(names, p=weights/sum(weights)): the index is the number of
\* entries of the cumulative distribution that are <= the uniform draw
ChoiceP(r, names, weights) ==
  LET d     == Draw(r, "random_sample")
      total == SumSeq(weights)
      k     == Cardinality({i \in 1 .. Len(names) :
                              CumSum(weights, i) * WordMod <= d.word * total})
  IN  [rng |-> d.rng, val |-> names[Min(k + 1, Len(names))]]

-----------------------------------------------------------------------------
(* Weighted sampler: the scalar primitives *)

\* the integer nearest to the square root of n, found between lo and hi
RECURSIVE SqrtSearch(_, _, _)
SqrtSearch(n, lo, hi) ==
  IF lo >= hi THEN lo
  ELSE LET m == (lo + hi + 1) \div 2
       IN  IF m * m <= n THEN SqrtSearch(n, m, hi) ELSE SqrtSearch(n, lo, m - 1)

ISqrt(n, lo, hi) ==
  LET f == SqrtSearch(n, lo, hi)
  IN  IF n - f * f > f THEN Min(f + 1, hi) ELSE f

\* exp(ln a + (ln b - ln a) * j / 2^bits) on the grid, by repeated geometric
\* means: the point at fraction j / 2^bits between a and b on a log scale
RECURSIVE GeoInterp(_, _, _, _)
GeoInterp(a, b, j, bits) ==
  IF j = 0 \/ bits = 0 THEN a
  ELSE LET half == 2 ^ (bits - 1)
           mid  == ISqrt(a * b, a, b)
       IN  IF j < half THEN GeoInterp(a, mid, j, bits - 1)
                       ELSE GeoInterp(mid, b, j - half, bits - 1)

\* np.exp(rng.uniform(np.log(float(low)), np.log(float(high)))), a float
ExpUniformLog(low, high, word) ==
  GeoInterp(low * FloatScale, high * FloatScale, word, RngBits) + fperr

\* the integer part of a float, as int() takes it
Truncate(g) == g \div FloatScale

\* np.round: to the nearest integer, a tie to the even one
Round(g) ==
  LET q == g \div FloatScale
      r == g % FloatScale
  IN  IF 2 * r < FloatScale THEN q
      ELSE IF 2 * r > FloatScale THEN q + 1
      ELSE IF q % 2 = 0 THEN q ELSE q + 1

\* int(np.exp(sample)) with no np.round
sample_log_int_truncated(r, low, high) ==
  LET d == Draw(r, "uniform")
  IN  [rng |-> d.rng, val |-> Truncate(ExpUniformLog(low, high, d.word))]

sample_log_int(r, low, high) ==
  LET d == Draw(r, "uniform")
  IN  [rng |-> d.rng, val |-> Round(ExpUniformLog(low, high, d.word))]

sample_linear_int(r, low, high) ==
  LET d == Draw(r, "uniform")
      g == low * FloatScale + (((high - low) * FloatScale * d.word) \div WordMod)
  IN  [rng |-> d.rng, val |-> Round(g)]

sample_log_float(r, low, high) ==
  LET d == Draw(r, "uniform")
  IN  [rng |-> d.rng, val |-> ExpUniformLog(low, high, d.word)]

\* p is given in percent. `if not 0.0 <= p <= 1.0: raise ValueError`: no draw
\* is made then
sample_bool(r, pct) ==
  IF ~(0 <= pct /\ pct <= 100)
  THEN [rng |-> r, val |-> FALSE, raised |-> TRUE]
  ELSE LET d == Draw(r, "uniform")
       IN  [rng |-> d.rng, val |-> d.word * 100 < pct * WordMod, raised |-> FALSE]

-----------------------------------------------------------------------------
(* Mappings (Python dicts) and the order of their names *)

\* every registry name, in the order Python's sorted() gives strings
NamesInOrder ==
  << "cifar10", "cifar100", "coil100_32x32", "cos", "deep_weeds_32x32", "elu",
     "fashion_mnist", "food101_32x32", "glorot_normal", "glorot_uniform",
     "he_normal", "he_uniform", "imagenet_resized/16x16",
     "imagenet_resized/32x32", "imdb_reviews/bytes", "imdb_reviews/subwords8k",
     "imdb_reviews/subwords8kimdb_reviews/bytes", "leaky_relu1", "leaky_relu2",
     "leaky_relu4", "lm1b/bytes", "lm1b/subwords8k", "mnist", "orthogonal",
     "random_normal", "random_uniform", "relu", "sigmoid", "sun397_32x32",
     "swish", "tanh",
     "tokenized_amazon_reviews/Books_v1_02_bytes",
     "tokenized_amazon_reviews/Books_v1_02_subwords8k",
     "tokenized_amazon_reviews/Camera_v1_00_bytes",
     "tokenized_amazon_reviews/Camera_v1_00_subwords8k",
     "tokenized_amazon_reviews/Home_v1_00_bytes",
     "tokenized_amazon_reviews/Home_v1_00_subwords8k",
     "tokenized_amazon_reviews/Video_v1_00_bytes",
     "tokenized_amazon_reviews/Video_v1_00_subwords8k",
     "tokenized_wikipedia/20190301.en_bytes",
     "tokenized_wikipedia/20190301.en_subwords8k",
     "tokenized_wikipedia/20190301.hsb_bytes",
     "tokenized_wikipedia/20190301.hsb_subwords8k",
     "tokenized_wikipedia/20190301.ja_bytes",
     "tokenized_wikipedia/20190301.ja_subwords8k",
     "tokenized_wikipedia/20190301.ru_bytes",
     "tokenized_wikipedia/20190301.ru_subwords8k",
     "tokenized_wikipedia/20190301.zh_bytes",
     "tokenized_wikipedia/20190301.zh_subwords8k",
     "truncated_normal", "variance_scaling" >>

NameRank ==
  [n \in {NamesInOrder[i] : i \in DOMAIN NamesInOrder} |->
     CHOOSE i \in DOMAIN NamesInOrder : NamesInOrder[i] = n]

\* a mapping is the sequence of its entries in insertion order; iterating it
\* yields them in an order the interpreter chooses: a rotation by rot
DictItems(map, rot) ==
  LET n == Len(map)
  IN  [i \in 1 .. n |-> map[((i - 1 + rot) % n) + 1]]

\* map.items() as the interpreter iterates it, with no sort
InIterationOrder(items) == items

\* sorted(map.items()): the entries by name
Sorted(items) ==
  LET n      == Len(items)
      pos(i) == Cardinality({j \in 1 .. n :
                   NameRank[items[j].name] < NameRank[items[i].name]}) + 1
  IN  [k \in 1 .. n |-> items[CHOOSE i \in 1 .. n : pos(i) = k]]

Keys(map) == {map[i].name : i \in DOMAIN map}

\* map[name], for a name the mapping holds
Lookup(map, name) == map[CHOOSE i \in DOMAIN map : map[i].name = name]

NamesOf(items) == [i \in DOMAIN items |-> items[i].name]
WeightsOf(items) == [i \in DOMAIN items |-> items[i].weight]

-----------------------------------------------------------------------------
(* What a get_* call does: the value it returns or the error it raises,   *)
(* and the external constructors and providers it called on the way       *)

Returned(value, calls) ==
  [calls |-> calls, status |-> "ok", ret |-> <<value>>, key |-> ""]

Raised(error, key, calls) ==
  [calls |-> calls, status |-> error, ret |-> <<>>, key |-> key]

-----------------------------------------------------------------------------
(* Activations *)

_activation_fn_map ==
  << [name |-> "relu",        weight |-> 6, fn |-> "tf.nn.relu"],
     [name |-> "tanh",        weight |-> 3, fn |-> "tf.tanh"],
     [name |-> "cos",         weight |-> 1, fn |-> "tf.cos"],
     [name |-> "elu",         weight |-> 1, fn |-> "tf.nn.elu"],
     [name |-> "sigmoid",     weight |-> 1, fn |-> "tf.nn.sigmoid"],
     [name |-> "swish",       weight |-> 1, fn |-> "lambda x: x * tf.nn.sigmoid(x)"],
     [name |-> "leaky_relu4", weight |-> 1, fn |-> "lambda x: tf.nn.leaky_relu(x, alpha=0.4)"],
     [name |-> "leaky_relu2", weight |-> 1, fn |-> "lambda x: tf.nn.leaky_relu(x, alpha=0.2)"],
     [name |-> "leaky_relu1", weight |-> 1, fn |-> "lambda x: tf.nn.leaky_relu(x, alpha=0.1)"] >>

\* `sorted(_activation_fn_map.items())`, for each iteration order of the mapping
SortedActivations ==
  [rot \in 0 .. MaxRot |-> Sorted(DictItems(_activation_fn_map, rot))]

sample_activation(r, rot) ==
  LET items == SortedActivations[rot]
  IN  ChoiceP(r, NamesOf(items), WeightsOf(items))

\* a lookup that falls back to relu: _activation_fn_map.get(name, tf.nn.relu)
get_activation_or_relu(name) ==
  IF name \notin Keys(_activation_fn_map)
  THEN Returned("tf.nn.relu", <<>>)
  ELSE Returned(Lookup(_activation_fn_map, name).fn, <<>>)

get_activation(name) ==
  IF name \notin Keys(_activation_fn_map)
  THEN Raised("KeyError", name, <<>>)
  ELSE Returned(Lookup(_activation_fn_map, name).fn, <<>>)

-----------------------------------------------------------------------------
(* Initializers *)

\* sample: whether the entry has a sample_fn (sample_log_float(rng, 0.1, 10));
\* lambda: whether make_fn is a one-parameter lambda (it cannot be called
\* without an argument); fn: the constructor make_fn calls
_initializer_name_map ==
  << [name |-> "he_normal",        weight |-> 2, fn |-> "tf.initializers.he_normal", sample |-> FALSE,
      lambda |-> FALSE],
     [name |-> "he_uniform",       weight |-> 2, fn |-> "tf.initializers.he_uniform", sample |-> FALSE,
      lambda |-> FALSE],
     [name |-> "glorot_normal",    weight |-> 2, fn |-> "tf.initializers.glorot_normal", sample |-> FALSE,
      lambda |-> FALSE],
     [name |-> "glorot_uniform",   weight |-> 2, fn |-> "tf.initializers.glorot_uniform", sample |-> FALSE,
      lambda |-> FALSE],
     [name |-> "orthogonal",       weight |-> 1, fn |-> "tf.initializers.orthogonal",  sample |-> TRUE,
      lambda |-> FALSE],
     [name |-> "random_uniform",   weight |-> 1, fn |-> "tf.initializers.random_uniform",  sample |-> TRUE,
      lambda |-> TRUE],
     [name |-> "random_normal",    weight |-> 1, fn |-> "tf.initializers.random_normal",  sample |-> TRUE,
      lambda |-> TRUE],
     [name |-> "truncated_normal", weight |-> 1, fn |-> "tf.initializers.random_normal",  sample |-> TRUE,
      lambda |-> TRUE],
     [name |-> "variance_scaling", weight |-> 1, fn |-> "tf.initializers.variance_scaling",  sample |-> TRUE,
      lambda |-> FALSE] >>

\* the sample_fn of an entry: sample_log_float(rng, 0.1, 10), kept in tenths
\* (a log-uniform draw scales with its bounds)
InitializerScale(r) == sample_log_float(r, 1, 100)

\* `sorted(_initializer_name_map.items())`, for each iteration order
SortedInitializers ==
  [rot \in 0 .. MaxRot |-> Sorted(DictItems(_initializer_name_map, rot))]

sample_initializer(r, rot) ==
  LET items == SortedInitializers[rot]
      c     == ChoiceP(r, NamesOf(items), WeightsOf(items))
      entry == Lookup(_initializer_name_map, c.val)
  IN  IF entry.sample
      THEN LET p == InitializerScale(c.rng)
           IN  [rng |-> p.rng, val |-> <<c.val, Some(p.val)>>]
      ELSE [rng |-> c.rng, val |-> <<c.val, None>>]

\* Python's truth value of an optional number: None and 0 are false
Truthy(x) == ~IsNone(x) /\ x[1] # 0

\* `make_fn(arg) if arg else make_fn()`: the arguments make_fn is called with
MakeFnArgs(a) == IF Truthy(a) THEN a ELSE <<>>

\* make_fn(*args) if every make_fn were a one-parameter lambda
MakeFnOfLambda(entry, args) ==
  IF args = <<>>
  THEN [calls |-> <<>>, status |-> "TypeError", ret |-> <<>>, key |-> entry.name,
        make_fn_args |-> args]
  ELSE LET call == [fn |-> entry.fn, args |-> args, made_by |-> entry.name]
       IN  [calls |-> <<call>>, status |-> "ok", ret |-> <<call>>, key |-> "",
            make_fn_args |-> args]

\* make_fn(*args): the external constructor call it makes, or the TypeError
\* of calling a one-parameter lambda with no argument
MakeFn(entry, args) ==
  IF entry.lambda /\ args = <<>>
  THEN [calls |-> <<>>, status |-> "TypeError", ret |-> <<>>, key |-> entry.name,
        make_fn_args |-> args]
  ELSE LET call == [fn |-> entry.fn, args |-> args, made_by |-> entry.name]
       IN  [calls |-> <<call>>, status |-> "ok", ret |-> <<call>>, key |-> "",
            make_fn_args |-> args]

get_initializer(cfg) ==
  LET name == cfg[1]
      a    == cfg[2]
  IN  IF name \notin Keys(_initializer_name_map)
      THEN Raised("KeyError", name, <<>>)
      ELSE MakeFn(Lookup(_initializer_name_map, name), MakeFnArgs(a))

-----------------------------------------------------------------------------
(* Architecture components: the recurrent cores *)

GruKeys == <<"wh", "wz", "wr", "uh", "uz", "ur">>

\* args[key] = val, on a dict of string keys
SetKey(args, key, val) ==
  [k \in (DOMAIN args) \cup {key} |-> IF k = key THEN val ELSE args[k]]

\* `for init_key in keys: args[init_key] = sample_initializer(rng)`
RECURSIVE SampleEach(_, _, _, _)
SampleEach(r, rot, keys, args) ==
  IF keys = <<>> THEN [rng |-> r, val |-> args]
  ELSE LET s == sample_initializer(r, rot)
       IN  SampleEach(s.rng, rot, Tail(keys), SetKey(args, Head(keys), s.val))

\* `for init_key in keys: args[init_key] = init`
RECURSIVE AssignEach(_, _, _)
AssignEach(keys, init, args) ==
  IF keys = <<>> THEN args
  ELSE AssignEach(Tail(keys), init, SetKey(args, Head(keys), init))

CoreNames == <<"vrnn", "gru", "lstm">>

sample_rnn_core(r, rot) ==
  LET core   == Choice(r, CoreNames)
      linked == Choice(core.rng, <<TRUE, TRUE, TRUE, TRUE, FALSE>>)
  IN  CASE core.val = "vrnn" ->
             LET inits == IF linked.val
                          THEN LET init == sample_initializer(linked.rng, rot)
                               IN  [rng |-> init.rng,
                                    val |-> SetKey(SetKey(<<>>, "hidden_to_hidden", init.val),
                                                   "in_to_hidden", init.val)]
                          ELSE SampleEach(linked.rng, rot,
                                          <<"hidden_to_hidden", "in_to_hidden">>, <<>>)
                 act   == sample_activation(inits.rng, rot)
                 dim   == sample_log_int(act.rng, 32, 128)
             IN  [rng |-> dim.rng,
                  val |-> <<core.val, SetKey(SetKey(inits.val, "act_fn", act.val),
                                             "core_dim", dim.val)>>]
        [] core.val = "gru" ->
             LET dim   == sample_log_int(linked.rng, 32, 128)
                 args  == SetKey(<<>>, "core_dim", dim.val)
                 inits == IF linked.val
                          THEN LET init == sample_initializer(dim.rng, rot)
                               IN  [rng |-> init.rng,
                                    val |-> AssignEach(GruKeys, init.val, args)]
                          ELSE SampleEach(dim.rng, rot, GruKeys, args)
             IN  [rng |-> inits.rng, val |-> <<core.val, inits.val>>]
        [] core.val = "lstm" ->
             LET init == sample_initializer(linked.rng, rot)
                 dim  == sample_log_int(init.rng, 32, 128)
             IN  [rng |-> dim.rng,
                  val |-> <<core.val, SetKey(SetKey(<<>>, "w_gates", init.val),
                                             "core_dim", dim.val)>>]

\* `init[key] = get_initializer(args[key])` for each key in turn: the first
\* error ends the loop, with the constructors called before it
RECURSIVE GetEach(_, _, _)
GetEach(args, keys, acc) ==
  IF keys = <<>> \/ acc.status # "ok" THEN acc
  ELSE LET g == get_initializer(args[Head(keys)])
       IN  GetEach(args, Tail(keys),
                   IF g.status = "ok"
                   THEN Returned(SetKey(acc.ret[1], Head(keys), g.ret[1]),
                                 acc.calls \o g.calls)
                   ELSE Raised(g.status, g.key, acc.calls \o g.calls))

\* snt.LSTM / snt.GRU / snt.VanillaRNN(core_dim, initializers=..., ...)
SntCore(fn, inits, dim, extra) ==
  IF inits.status # "ok" THEN inits
  ELSE LET call == [fn |-> fn, args |-> <<dim, inits.ret[1]>> \o extra,
                    made_by |-> "get_rnn_core"]
       IN  Returned(call, Append(inits.calls, call))

get_rnn_core(cfg) ==
  LET name == cfg[1]
      args == cfg[2]
  IN  IF name = "lstm"
      THEN SntCore("snt.LSTM", GetEach(args, <<"w_gates">>, Returned(<<>>, <<>>)),
                   args["core_dim"], <<>>)
      ELSE IF name = "gru"
      THEN SntCore("snt.GRU", GetEach(args, GruKeys, Returned(<<>>, <<>>)),
                   args["core_dim"], <<>>)
      ELSE IF name = "vrnn"
      THEN LET inits == GetEach(args, <<"in_to_hidden", "hidden_to_hidden">>,
                                Returned(<<>>, <<>>))
               act   == get_activation(args["act_fn"])
           IN  IF inits.status # "ok" THEN inits
               ELSE IF act.status # "ok"
               THEN Raised(act.status, act.key, inits.calls)
               ELSE SntCore("snt.VanillaRNN", inits, args["core_dim"], act.ret)
      ELSE Raised("ValueError", name, <<>>)

-----------------------------------------------------------------------------
(* Augmentation *)

\* the magnitudes are kept in the unit of their lower bound: brightness in
\* thousandths (0.001 .. 64/255), saturation, hue and contrast in hundredths
sample_augmentation(r) ==
  LET crop == Choice(r, <<0, 0, 0, 1, 2>>)
      lr   == Choice(crop.rng, <<FALSE, TRUE>>)
      ud   == Choice(lr.rng, <<FALSE, TRUE>>)
      col  == Choice(ud.rng, <<FALSE, TRUE>>)
      br   == sample_log_float(col.rng, 1, 251)
      sat  == sample_log_float(br.rng, 1, 100)
      hue  == sample_log_float(sat.rng, 1, 50)
      con  == sample_log_float(hue.rng, 1, 100)
  IN  [rng |-> con.rng,
       val |-> [hue |-> hue.val, crop_amount |-> crop.val,
                flip_left_right |-> lr.val, flip_up_down |-> ud.val,
                do_color_aug |-> col.val, brightness |-> br.val,
                saturation |-> sat.val, contrast |-> con.val]]

\* a tf.image op: a new tensor, of the given shape, that records the op
TfImage(img, name, shape, param) ==
  [shape |-> shape, ops |-> Append(img.ops, [op |-> name, param |-> param])]

\* the steps of augment() with the color steps not guarded by the channel
\* count: `if cfg["do_color_aug"]:`
AugmentImageUnguarded(cfg, img0) ==
  LET channels == img0.shape[3]
      img1 == IF cfg.crop_amount # 0
              THEN TfImage(img0, "random_crop",
                           <<img0.shape[1] - cfg.crop_amount,
                             img0.shape[2] - cfg.crop_amount, channels>>,
                           cfg.crop_amount)
              ELSE img0
      img2 == IF cfg.flip_left_right
              THEN TfImage(img1, "random_flip_left_right", img1.shape, 0) ELSE img1
      img3 == IF cfg.flip_up_down
              THEN TfImage(img2, "random_flip_up_down", img2.shape, 0) ELSE img2
  IN  IF cfg.do_color_aug
      THEN LET b == TfImage(img3, "random_brightness", img3.shape, cfg.brightness)
               s == TfImage(b, "random_saturation", b.shape, cfg.saturation)
               h == TfImage(s, "random_hue", s.shape, cfg.hue)
           IN  TfImage(h, "random_contrast", h.shape, cfg.contrast)
      ELSE img3

\* the steps of augment() up to the copy: the image it ends with
AugmentImage(cfg, img0) ==
  LET channels == img0.shape[3]
      img1 == IF cfg.crop_amount # 0
              THEN TfImage(img0, "random_crop",
                           <<img0.shape[1] - cfg.crop_amount,
                             img0.shape[2] - cfg.crop_amount, channels>>,
                           cfg.crop_amount)
              ELSE img0
      img2 == IF cfg.flip_left_right
              THEN TfImage(img1, "random_flip_left_right", img1.shape, 0) ELSE img1
      img3 == IF cfg.flip_up_down
              THEN TfImage(img2, "random_flip_up_down", img2.shape, 0) ELSE img2
  IN  IF cfg.do_color_aug /\ channels = 3
      THEN LET b == TfImage(img3, "random_brightness", img3.shape, cfg.brightness)
               s == TfImage(b, "random_saturation", b.shape, cfg.saturation)
               h == TfImage(s, "random_hue", s.shape, cfg.hue)
           IN  TfImage(h, "random_contrast", h.shape, cfg.contrast)
      ELSE img3

\* example["image"] = img, on the record at address a
SetImage(h, a, img) == [h EXCEPT ![a] = [@ EXCEPT !.image = img]]

\* no copy: the closure works on the caller's record
NoCopy(h, a) == h

\* copy.copy(example): a new record with the same fields, at a new address
CopyCopy(h, a) == Append(h, h[a])

\* the closure get_augmentation(cfg) returns, applied to the example record at
\* address a of heap h; the config is the record at address c.
\* Returns the heap after the call and the address returned.
augment(h, c, a) ==
  LET img == AugmentImage(h[c], h[a].image)
      h1  == CopyCopy(h, a)
      new == Len(h1)
  IN  [heap |-> SetImage(h1, new, img), ret |-> new]

-----------------------------------------------------------------------------
(* Datasets: the bundle and the external pipeline provider *)

\* datasets.Datasets(a, b, c, d): the four-slot bundle
Datasets(a, b, c, d) ==
  [train |-> a, validation |-> b, train_for_eval |-> c, test |-> d]

\* what the external provider returns for a call: four different pipelines
ProviderBundle(call) ==
  Datasets([split |-> "train", of |-> call.dataset_name],
           [split |-> "validation", of |-> call.dataset_name],
           [split |-> "train_for_eval", of |-> call.dataset_name],
           [split |-> "test", of |-> call.dataset_name])

_make_just_train(dataset, just_train) ==
  IF just_train
  THEN Datasets(dataset.train, dataset.train, dataset.train, dataset.train)
  ELSE dataset

\* `sorted(map.keys())`, for each iteration order of the mapping
SortedKeys(map) ==
  [rot \in 0 .. MaxRot |-> NamesOf(Sorted(DictItems(map, rot)))]

-----------------------------------------------------------------------------
(* Image datasets *)

sample_mnist_and_fashion_mnist(r) ==
  LET bs == sample_log_int(r, 8, 512)
      nt == sample_linear_int(bs.rng, 1000, 55000)
      jt == sample_bool(nt.rng, 10)
  IN  [rng |-> jt.rng,
       val |-> [just_train |-> jt.val, bs |-> bs.val, num_train |-> Some(nt.val),
                num_classes |-> Some(10)]]

sample_cifar_image(r) ==
  LET bs == sample_log_int(r, 8, 256)
      nt == sample_linear_int(bs.rng, 1000, 50000)
      jt == sample_bool(nt.rng, 20)
  IN  [rng |-> jt.rng,
       val |-> [just_train |-> jt.val, bs |-> bs.val, num_train |-> Some(nt.val),
                num_classes |-> None]]

sample_default_image(r) ==
  LET bs == sample_log_int(r, 8, 256)
      jt == sample_bool(bs.rng, 20)
  IN  [rng |-> jt.rng,
       val |-> [just_train |-> jt.val, bs |-> bs.val, num_train |-> None,
                num_classes |-> None]]

_n_valid_for_smaller_datasets ==
  << [n |-> 800, name |-> "coil100_32x32"],
     [n |-> 2000, name |-> "deep_weeds_32x32"] >>

\* datasets.get_image_datasets(name, batch_size=..., ...): the provider call
_get_image(name, config, cache, augmentation_fn) ==
  LET num_per_valid == IF name \in Keys(_n_valid_for_smaller_datasets)
                       THEN Lookup(_n_valid_for_smaller_datasets, name).n
                       ELSE 5000
      call == [fn |-> "datasets.get_image_datasets", dataset_name |-> name,
               num_train |-> config.num_train, augmentation_fn |-> augmentation_fn,
               num_per_valid |-> num_per_valid, batch_size |-> config.bs,
               shuffle_buffer |-> 10000,
               cache_dataset |-> cache]
  IN  Returned(ProviderBundle(call), <<call>>)

\* sampler: the entry's config sampler; dataset: the name its
\* partial(_get_image, name, cache=True) is bound to
_name_to_image_dataset_map ==
  << [name |-> "mnist", dataset |-> "mnist", sampler |-> "sample_mnist_and_fashion_mnist"],
     [name |-> "fashion_mnist", dataset |-> "fashion_mnist",
      sampler |-> "sample_mnist_and_fashion_mnist"],
     [name |-> "cifar10", dataset |-> "cifar10", sampler |-> "sample_cifar_image"],
     [name |-> "cifar100", dataset |-> "cifar100", sampler |-> "sample_cifar_image"],
     [name |-> "food101_32x32", dataset |-> "food101_32x32",
      sampler |-> "sample_default_image"],
     [name |-> "coil100_32x32", dataset |-> "coil100_32x32",
      sampler |-> "sample_default_image"],
     [name |-> "deep_weeds_32x32", dataset |-> "deep_weeds_32x32",
      sampler |-> "sample_default_image"],
     [name |-> "sun397_32x32", dataset |-> "sun397_32x32",
      sampler |-> "sample_default_image"],
     [name |-> "imagenet_resized/32x32", dataset |-> "imagenet_resized/32x32",
      sampler |-> "sample_default_image"],
     [name |-> "imagenet_resized/16x16", dataset |-> "imagenet_resized/16x16",
      sampler |-> "sample_default_image"] >>

\* `_name_to_image_dataset_map[name][0](rng)`
ImageSampler(entry, r) ==
  CASE entry.sampler = "sample_mnist_and_fashion_mnist" -> sample_mnist_and_fashion_mnist(r)
    [] entry.sampler = "sample_cifar_image" -> sample_cifar_image(r)
    [] entry.sampler = "sample_default_image" -> sample_default_image(r)

SortedImageNames == SortedKeys(_name_to_image_dataset_map)

sample_image_dataset(r, rot) ==
  LET name == Choice(r, SortedImageNames[rot])
      doit == sample_bool(name.rng, 30)
      aug  == IF doit.val
              THEN LET a == sample_augmentation(doit.rng)
                   IN  [rng |-> a.rng, val |-> Some(a.val)]
              ELSE [rng |-> doit.rng, val |-> None]
      cfg  == ImageSampler(Lookup(_name_to_image_dataset_map, name.val), aug.rng)
  IN  [rng |-> cfg.rng, val |-> <<name.val, cfg.val, aug.val>>]

\* get_augmentation(aug_cfg) builds the closure and calls nothing: the closure
\* is named by the config it holds
get_augmentation(cfg) == [cfg |-> cfg, closure |-> "augment"]

get_image_dataset(cfg) ==
  LET aug_cfg         == cfg[3]
      augmentation_fn == IF ~IsNone(aug_cfg) THEN Some(get_augmentation(aug_cfg[1]))
                         ELSE None
  IN  IF cfg[1] \notin Keys(_name_to_image_dataset_map)
      THEN Raised("KeyError", cfg[1], <<>>)
      ELSE _get_image(Lookup(_name_to_image_dataset_map, cfg[1]).dataset, cfg[2],
                      TRUE, augmentation_fn)

-----------------------------------------------------------------------------
(* Text classification datasets *)

\* `if sample_bool(rng, 0.2): num_train = sample_linear_int(rng, 1000, 50000)`
SampleNumTrain(r) ==
  LET b == sample_bool(r, 20)
  IN  IF b.val
      THEN LET n == sample_linear_int(b.rng, 1000, 50000)
           IN  [rng |-> n.rng, val |-> Some(n.val)]
      ELSE [rng |-> b.rng, val |-> None]

sample_text_classification(r) ==
  LET nt == SampleNumTrain(r)
      bs == sample_log_int(nt.rng, 8, 512)
      jt == sample_bool(bs.rng, 20)
      pl == sample_log_int(jt.rng, 8, 128)
  IN  [rng |-> pl.rng,
       val |-> [just_train |-> jt.val, bs |-> bs.val, num_train |-> nt.val,
                max_token |-> 8185, patch_length |-> pl.val]]

\* datasets.random_slice_text_data(...): the provider call
RandomSliceTextData(name, batch_size, num_train, patch_length, num_per_valid, shuffle_buffer) ==
  [fn |-> "datasets.random_slice_text_data", dataset_name |-> name,
   num_train |-> num_train, num_per_valid |-> num_per_valid,
   batch_size |-> batch_size, shuffle_buffer |-> shuffle_buffer,
   cache_dataset |-> TRUE, patch_length |-> patch_length]

get_text_classification(dataset_name, config) ==
  LET call == RandomSliceTextData(dataset_name, config.bs, config.num_train,
                                  config.patch_length, 3000, None)
  IN  Returned(ProviderBundle(call), <<call>>)

\* the string literals of the list the registry is built from, each with
\* whether a comma follows it
TextDatasetLiterals ==
  << [lit |-> "imdb_reviews/subwords8k", comma |-> FALSE],
     [lit |-> "imdb_reviews/bytes", comma |-> TRUE],
     [lit |-> "tokenized_amazon_reviews/Books_v1_02_bytes", comma |-> TRUE],
     [lit |-> "tokenized_amazon_reviews/Camera_v1_00_bytes", comma |-> TRUE],
     [lit |-> "tokenized_amazon_reviews/Home_v1_00_bytes", comma |-> TRUE],
     [lit |-> "tokenized_amazon_reviews/Video_v1_00_bytes", comma |-> TRUE],
     [lit |-> "tokenized_amazon_reviews/Books_v1_02_subwords8k", comma |-> TRUE],
     [lit |-> "tokenized_amazon_reviews/Camera_v1_00_subwords8k", comma |-> TRUE],
     [lit |-> "tokenized_amazon_reviews/Home_v1_00_subwords8k", comma |-> TRUE],
     [lit |-> "tokenized_amazon_reviews/Video_v1_00_subwords8k", comma |-> TRUE] >>

\* a Python list display of string literals: adjacent literals with no comma
\* between them are one string, their concatenation
RECURSIVE ListDisplay(_, _)
ListDisplay(lits, pending) ==
  IF lits = <<>> THEN (IF pending = "" THEN <<>> ELSE <<pending>>)
  ELSE LET str == pending \o Head(lits).lit
       IN  IF Head(lits).comma
           THEN <<str>> \o ListDisplay(Tail(lits), "")
           ELSE ListDisplay(Tail(lits), str)

\* a loop whose entries materialize the dataset they are named after:
\* partial(get_text_classification, name)
TextRegistryByName(names) ==
  [i \in DOMAIN names |->
     [name |-> names[i], dataset |-> names[i],
      sampler |-> "sample_text_classification"]]

\* the loop that fills the registry: every entry's materializer is
\* partial(get_text_classification, "imdb_reviews/subwords8k")
TextRegistryOf(names) ==
  [i \in DOMAIN names |->
     [name |-> names[i], dataset |-> "imdb_reviews/subwords8k",
      sampler |-> "sample_text_classification"]]

_name_to_text_dataset_map == TextRegistryOf(ListDisplay(TextDatasetLiterals, ""))

SortedTextNames == SortedKeys(_name_to_text_dataset_map)

sample_text_dataset(r, rot) ==
  LET name == Choice(r, SortedTextNames[rot])
      cfg  == sample_text_classification(name.rng)
  IN  [rng |-> cfg.rng, val |-> <<name.val, cfg.val>>]

get_text_dataset(cfg) ==
  IF cfg[1] \notin Keys(_name_to_text_dataset_map)
  THEN Raised("KeyError", cfg[1], <<>>)
  ELSE get_text_classification(Lookup(_name_to_text_dataset_map, cfg[1]).dataset, cfg[2])

-----------------------------------------------------------------------------
(* Byte-level and word-level sequence datasets *)

sample_byte_config(r) ==
  LET nt == SampleNumTrain(r)
      pl == sample_log_int(nt.rng, 10, 160)
      bs == sample_log_int(pl.rng, 8, 512)
      jt == sample_bool(bs.rng, 20)
  IN  [rng |-> jt.rng,
       val |-> [just_train |-> jt.val, num_train |-> nt.val,
                batch_size |-> bs.val, patch_length |-> pl.val]]

\* `_make_just_train(<provider call>, config["just_train"])`
WithBundle(res, just_train) ==
  Returned(_make_just_train(res.ret[1], just_train), res.calls)

get_byte_dataset(config, name) ==
  LET call == RandomSliceTextData(name, config.batch_size, config.num_train,
                                  config.patch_length, 3000, Some(10000))
  IN  WithBundle(Returned(ProviderBundle(call), <<call>>), config.just_train)

\* the loop that fills a sequence registry from its list of names
SequenceRegistryOf(names) ==
  [i \in DOMAIN names |-> [name |-> names[i], dataset |-> names[i]]]

_name_to_char_sequence_dataset_map ==
  SequenceRegistryOf(
    << "lm1b/bytes",
       "imdb_reviews/bytes",
       "tokenized_wikipedia/20190301.zh_bytes",
       "tokenized_wikipedia/20190301.ru_bytes",
       "tokenized_wikipedia/20190301.ja_bytes",
       "tokenized_wikipedia/20190301.hsb_bytes",
       "tokenized_wikipedia/20190301.en_bytes",
       "tokenized_amazon_reviews/Books_v1_02_bytes",
       "tokenized_amazon_reviews/Camera_v1_00_bytes",
       "tokenized_amazon_reviews/Home_v1_00_bytes",
       "tokenized_amazon_reviews/Video_v1_00_bytes" >>)

SortedCharNames == SortedKeys(_name_to_char_sequence_dataset_map)

sample_char_lm_dataset(r, rot) ==
  LET name == Choice(r, SortedCharNames[rot])
      cfg  == sample_byte_config(name.rng)
  IN  [rng |-> cfg.rng, val |-> <<name.val, cfg.val>>]

get_char_lm_dataset(cfg) ==
  IF cfg[1] \notin Keys(_name_to_char_sequence_dataset_map)
  THEN Raised("KeyError", cfg[1], <<>>)
  ELSE get_byte_dataset(cfg[2], Lookup(_name_to_char_sequence_dataset_map, cfg[1]).dataset)

\* the _make(config) that _make_get_word_dataset(dataset_name) returns
_make_get_word_dataset(dataset_name, config) ==
  LET call == RandomSliceTextData(dataset_name, config.batch_size, config.num_train,
                                  config.patch_length, 10000, Some(10000))
  IN  WithBundle(Returned(ProviderBundle(call), <<call>>), config.just_train)

sample_word_dataset_config(r) ==
  LET nt == SampleNumTrain(r)
      pl == sample_log_int(nt.rng, 10, 256)
      bs == sample_log_int(pl.rng, 8, 512)
      jt == sample_bool(bs.rng, 20)
  IN  [rng |-> jt.rng,
       val |-> [just_train |-> jt.val, num_train |-> nt.val,
                batch_size |-> bs.val, patch_length |-> pl.val]]

_name_to_word_sequence_dataset_map ==
  SequenceRegistryOf(
    << "lm1b/subwords8k",
       "imdb_reviews/subwords8k",
       "tokenized_wikipedia/20190301.zh_subwords8k",
       "tokenized_wikipedia/20190301.ru_subwords8k",
       "tokenized_wikipedia/20190301.ja_subwords8k",
       "tokenized_wikipedia/20190301.hsb_subwords8k",
       "tokenized_wikipedia/20190301.en_subwords8k",
       "tokenized_amazon_reviews/Books_v1_02_subwords8k",
       "tokenized_amazon_reviews/Camera_v1_00_subwords8k",
       "tokenized_amazon_reviews/Home_v1_00_subwords8k",
       "tokenized_amazon_reviews/Video_v1_00_subwords8k" >>)

SortedWordNames == SortedKeys(_name_to_word_sequence_dataset_map)

sample_word_lm_dataset(r, rot) ==
  LET name == Choice(r, SortedWordNames[rot])
      cfg  == sample_word_dataset_config(name.rng)
  IN  [rng |-> cfg.rng, val |-> <<name.val, cfg.val>>]

get_word_lm_dataset(cfg) ==
  IF cfg[1] \notin Keys(_name_to_word_sequence_dataset_map)
  THEN Raised("KeyError", cfg[1], <<>>)
  ELSE _make_get_word_dataset(Lookup(_name_to_word_sequence_dataset_map, cfg[1]).dataset,
                              cfg[2])

-----------------------------------------------------------------------------
(* The session: a caller samples configurations from its random source and *)
(* materializes them                                                       *)

\* the source as a call receives it: its state, and no draw made yet
Fresh(r) == [state |-> r.state, log |-> <<>>]

Builds == (0 - MaxUlpErr) .. MaxUlpErr
Rotations == 0 .. MaxRot

Idle ==
  /\ op = "init" /\ origin = "none" /\ arg = <<>> /\ out = <<>>
  /\ out2 = <<>> /\ heap = <<>>

Init ==
  /\ rng \in {RandomState(s) : s \in Seeds}
  /\ fperr \in Builds
  /\ dictOrder \in Rotations
  /\ rng2 = RandomState(0) /\ dictOrder2 = 0
  /\ Idle

\* a sample_* call: its config, and the source after it
Sampled(name, s) ==
  /\ op' = name /\ origin' = "rng" /\ arg' = <<>>
  /\ out' = s.val /\ rng' = s.rng
  /\ UNCHANGED <<fperr, dictOrder, rng2, dictOrder2, out2, heap>>

\* a get_* call on the config the matching sample_* just returned
Materialized(sampler, name, g) ==
  /\ op = sampler
  /\ op' = name /\ origin' = "sampled" /\ arg' = out /\ out' = g
  /\ UNCHANGED <<rng, fperr, dictOrder, rng2, dictOrder2, out2, heap>>

SampleActivation == Sampled("sample_activation", sample_activation(Fresh(rng), dictOrder))
SampleInitializer == Sampled("sample_initializer", sample_initializer(Fresh(rng), dictOrder))
SampleRnnCore == Sampled("sample_rnn_core", sample_rnn_core(Fresh(rng), dictOrder))
SampleImageDataset == Sampled("sample_image_dataset", sample_image_dataset(Fresh(rng), dictOrder))
SampleTextDataset == Sampled("sample_text_dataset", sample_text_dataset(Fresh(rng), dictOrder))
SampleCharLmDataset == Sampled("sample_char_lm_dataset", sample_char_lm_dataset(Fresh(rng), dictOrder))
SampleWordLmDataset == Sampled("sample_word_lm_dataset", sample_word_lm_dataset(Fresh(rng), dictOrder))

GetActivation == Materialized("sample_activation", "get_activation", get_activation(out))
GetInitializer == Materialized("sample_initializer", "get_initializer", get_initializer(out))
GetRnnCore == Materialized("sample_rnn_core", "get_rnn_core", get_rnn_core(out))
GetImageDataset == Materialized("sample_image_dataset", "get_image_dataset", get_image_dataset(out))
GetTextDataset == Materialized("sample_text_dataset", "get_text_dataset", get_text_dataset(out))
GetCharLmDataset == Materialized("sample_char_lm_dataset", "get_char_lm_dataset", get_char_lm_dataset(out))
GetWordLmDataset == Materialized("sample_word_lm_dataset", "get_word_lm_dataset", get_word_lm_dataset(out))

Next ==
  \/ SampleActivation \/ SampleInitializer \/ SampleRnnCore
  \/ SampleImageDataset \/ SampleTextDataset
  \/ SampleCharLmDataset \/ SampleWordLmDataset
  \/ GetActivation \/ GetInitializer \/ GetRnnCore
  \/ GetImageDataset \/ GetTextDataset
  \/ GetCharLmDataset \/ GetWordLmDataset

Spec == Init /\ [][Next]_vars

-----------------------------------------------------------------------------
(* Stored configurations: a caller materializes configs it kept or wrote,  *)
(* and applies an augmentation to its example records                      *)

StoredNumTrain == {None, Some(1000)}

\* names no registry holds, next to the ones it holds
StoredActivationNames == Keys(_activation_fn_map) \cup {"gelu"}
StoredInitializerNames == Keys(_initializer_name_map) \cup {"lecun_normal"}

\* a scale of 0.0, of 1.0 (in tenths), or none
StoredInitializers ==
  {<<n, a>> : n \in StoredInitializerNames, a \in {None, Some(0), Some(10 * FloatScale)}}

\* the parameter mapping of a core of the given shape
CoreArgs(kind, init, act) ==
  CASE kind = "lstm" -> SetKey(SetKey(<<>>, "w_gates", init), "core_dim", 32)
    [] kind = "gru"  -> AssignEach(GruKeys, init, SetKey(<<>>, "core_dim", 32))
    [] OTHER         -> SetKey(SetKey(AssignEach(<<"hidden_to_hidden", "in_to_hidden">>,
                                                 init, <<>>),
                                      "act_fn", act),
                               "core_dim", 32)

StoredRnnCores ==
  {<<kind, CoreArgs(kind, init, act)>> :
     kind \in {"vrnn", "gru", "lstm", "vanilla"},
     init \in {<<"he_normal", None>>, <<"orthogonal", Some(10 * FloatScale)>>,
               <<"lecun_normal", None>>},
     act \in {"relu", "gelu"}}

StoredAugmentations ==
  [hue : {FloatScale}, crop_amount : {0, 1, 2}, flip_left_right : BOOLEAN,
   flip_up_down : BOOLEAN, do_color_aug : BOOLEAN, brightness : {FloatScale},
   saturation : {FloatScale}, contrast : {FloatScale}]

StoredImageDatasets ==
  {<<n, c, a>> :
     n \in Keys(_name_to_image_dataset_map) \cup {"svhn_cropped"},
     c \in [just_train : BOOLEAN, bs : {8}, num_train : StoredNumTrain,
            num_classes : {None}],
     a \in {None, Some([hue |-> FloatScale, crop_amount |-> 1,
                        flip_left_right |-> TRUE, flip_up_down |-> FALSE,
                        do_color_aug |-> TRUE, brightness |-> FloatScale,
                        saturation |-> FloatScale, contrast |-> FloatScale])}}

\* "imdb_reviews/bytes" is a literal of the text registry's list and no key
StoredTextDatasets ==
  {<<n, c>> :
     n \in Keys(_name_to_text_dataset_map) \cup {"imdb_reviews/bytes", "imdb_reviews/subwords8k"},
     c \in [just_train : BOOLEAN, bs : {8}, num_train : StoredNumTrain,
            max_token : {8185}, patch_length : {8}]}

StoredSequenceConfigs ==
  [just_train : BOOLEAN, num_train : StoredNumTrain, batch_size : {8},
   patch_length : {10}]

StoredCharLmDatasets ==
  {<<n, c>> : n \in Keys(_name_to_char_sequence_dataset_map) \cup {"lm1b/subwords8k"},
              c \in StoredSequenceConfigs}

StoredWordLmDatasets ==
  {<<n, c>> : n \in Keys(_name_to_word_sequence_dataset_map) \cup {"lm1b/bytes"},
              c \in StoredSequenceConfigs}

\* largest height and width of an example's image
MaxDim == 3

\* the caller's example records: an image tensor no op has touched, a label
Examples ==
  {[image |-> [shape |-> <<h, w, c>>, ops |-> <<>>], label |-> l] :
     h \in 2 .. MaxDim, w \in 2 .. MaxDim, c \in {1, 3}, l \in {0, 1}}

InitStored ==
  /\ rng = RandomState(0) /\ fperr = 0 /\ dictOrder = 0
  /\ rng2 = RandomState(0) /\ dictOrder2 = 0
  /\ Idle

\* a get_* call on a config the caller supplies
Stored(name, cfg, g) ==
  /\ op' = name /\ origin' = "stored" /\ arg' = cfg /\ out' = g
  /\ heap' = <<>>
  /\ UNCHANGED <<rng, fperr, dictOrder, rng2, dictOrder2, out2>>

GetStoredActivation ==
  \E n \in StoredActivationNames : Stored("get_activation", n, get_activation(n))
GetStoredInitializer ==
  \E c \in StoredInitializers : Stored("get_initializer", c, get_initializer(c))
GetStoredRnnCore ==
  \E c \in StoredRnnCores : Stored("get_rnn_core", c, get_rnn_core(c))
GetStoredImageDataset ==
  \E c \in StoredImageDatasets : Stored("get_image_dataset", c, get_image_dataset(c))
GetStoredTextDataset ==
  \E c \in StoredTextDatasets : Stored("get_text_dataset", c, get_text_dataset(c))
GetStoredCharLmDataset ==
  \E c \in StoredCharLmDatasets : Stored("get_char_lm_dataset", c, get_char_lm_dataset(c))
GetStoredWordLmDataset ==
  \E c \in StoredWordLmDatasets : Stored("get_word_lm_dataset", c, get_word_lm_dataset(c))

\* get_augmentation(cfg)(example): the caller holds the config at address 1
\* and its example record at address 2
Augment ==
  \E cfg \in StoredAugmentations, example \in Examples :
    LET before == <<cfg, example>>
        r      == augment(before, 1, 2)
    IN  /\ op' = "augment" /\ origin' = "stored"
        /\ arg' = [heap |-> before, cfg |-> 1, example |-> 2]
        /\ heap' = r.heap /\ out' = r.ret
        /\ UNCHANGED <<rng, fperr, dictOrder, rng2, dictOrder2, out2>>

NextStored ==
  \/ GetStoredActivation \/ GetStoredInitializer \/ GetStoredRnnCore
  \/ GetStoredImageDataset \/ GetStoredTextDataset
  \/ GetStoredCharLmDataset \/ GetStoredWordLmDataset
  \/ Augment

SpecStored == InitStored /\ [][NextStored]_vars

-----------------------------------------------------------------------------
(* The scalar samplers on their own *)

\* the (low, high) pairs of the log samplers: the generic ones and the
\* ones the config samplers pass
LogBounds ==
  {<<l, h>> \in (1 .. MaxBound) \X (1 .. MaxBound) : l < h}
    \cup {<<32, 128>>, <<8, 512>>, <<10, 160>>, <<1, 100>>}

LinearBounds ==
  {<<l, h>> \in (0 .. MaxBound) \X (0 .. MaxBound) : l < h}
    \cup {<<1000, 55000>>, <<1000, 50000>>}

Percents == {0 - 10, 0, 10, 20, 30, 100, 110}

InitNum ==
  /\ rng \in {RandomState(s) : s \in Seeds}
  /\ fperr \in Builds
  /\ dictOrder = 0 /\ rng2 = RandomState(0) /\ dictOrder2 = 0
  /\ Idle

\* a scalar sampler called once, with the given bounds, on a seeded source
Drawn(name, bounds, s) ==
  /\ op = "init"
  /\ op' = name /\ origin' = "rng" /\ arg' = bounds
  /\ out' = s.val /\ rng' = s.rng
  /\ UNCHANGED <<fperr, dictOrder, rng2, dictOrder2, out2, heap>>

SampleLogInt ==
  \E b \in LogBounds : Drawn("sample_log_int", b, sample_log_int(Fresh(rng), b[1], b[2]))
SampleLinearInt ==
  \E b \in LinearBounds :
    Drawn("sample_linear_int", b, sample_linear_int(Fresh(rng), b[1], b[2]))
SampleLogFloat ==
  \E b \in LogBounds : Drawn("sample_log_float", b, sample_log_float(Fresh(rng), b[1], b[2]))
SampleBool ==
  \E p \in Percents :
    LET s == sample_bool(Fresh(rng), p)
    IN  IF s.raised
        THEN /\ op = "init"
             /\ op' = "sample_bool" /\ origin' = "rng" /\ arg' = <<p>>
             /\ out' = "ValueError"
             /\ UNCHANGED <<rng, fperr, dictOrder, rng2, dictOrder2, out2, heap>>
        ELSE Drawn("sample_bool", <<p>>, s)

NextNum == SampleLogInt \/ SampleLinearInt \/ SampleLogFloat \/ SampleBool

SpecNum == InitNum /\ [][NextNum]_vars

-----------------------------------------------------------------------------
(* Two runs: the same build and the same source state, in two interpreters  *)
(* that may iterate the registries in different orders                     *)

InitTwoRuns ==
  /\ rng \in {RandomState(s) : s \in Seeds}
  /\ rng2 = rng
  /\ fperr \in Builds
  /\ dictOrder \in Rotations /\ dictOrder2 \in Rotations
  /\ Idle

\* the same sample_* call, once in each run
Both(name, s1, s2) ==
  /\ op = "init"
  /\ op' = name /\ origin' = "rng" /\ arg' = <<>>
  /\ out' = s1.val /\ rng' = s1.rng
  /\ out2' = s2.val /\ rng2' = s2.rng
  /\ UNCHANGED <<fperr, dictOrder, dictOrder2, heap>>

BothSampleActivation ==
  Both("sample_activation", sample_activation(Fresh(rng), dictOrder),
       sample_activation(Fresh(rng2), dictOrder2))
BothSampleInitializer ==
  Both("sample_initializer", sample_initializer(Fresh(rng), dictOrder),
       sample_initializer(Fresh(rng2), dictOrder2))
BothSampleRnnCore ==
  Both("sample_rnn_core", sample_rnn_core(Fresh(rng), dictOrder),
       sample_rnn_core(Fresh(rng2), dictOrder2))
BothSampleAugmentation ==
  Both("sample_augmentation", sample_augmentation(Fresh(rng)),
       sample_augmentation(Fresh(rng2)))
BothSampleImageDataset ==
  Both("sample_image_dataset", sample_image_dataset(Fresh(rng), dictOrder),
       sample_image_dataset(Fresh(rng2), dictOrder2))
BothSampleTextDataset ==
  Both("sample_text_dataset", sample_text_dataset(Fresh(rng), dictOrder),
       sample_text_dataset(Fresh(rng2), dictOrder2))
BothSampleCharLmDataset ==
  Both("sample_char_lm_dataset", sample_char_lm_dataset(Fresh(rng), dictOrder),
       sample_char_lm_dataset(Fresh(rng2), dictOrder2))
BothSampleWordLmDataset ==
  Both("sample_word_lm_dataset", sample_word_lm_dataset(Fresh(rng), dictOrder),
       sample_word_lm_dataset(Fresh(rng2), dictOrder2))
BothSampleLogInt ==
  Both("sample_log_int", sample_log_int(Fresh(rng), 32, 128),
       sample_log_int(Fresh(rng2), 32, 128))
BothSampleLinearInt ==
  Both("sample_linear_int", sample_linear_int(Fresh(rng), 1000, 55000),
       sample_linear_int(Fresh(rng2), 1000, 55000))
BothSampleLogFloat ==
  Both("sample_log_float", sample_log_float(Fresh(rng), 1, 100),
       sample_log_float(Fresh(rng2), 1, 100))
BothSampleBool ==
  Both("sample_bool", sample_bool(Fresh(rng), 20), sample_bool(Fresh(rng2), 20))

NextTwoRuns ==
  \/ BothSampleActivation \/ BothSampleInitializer \/ BothSampleRnnCore
  \/ BothSampleAugmentation \/ BothSampleImageDataset \/ BothSampleTextDataset
  \/ BothSampleCharLmDataset \/ BothSampleWordLmDataset
  \/ BothSampleLogInt \/ BothSampleLinearInt \/ BothSampleLogFloat
  \/ BothSampleBool

SpecTwoRuns == InitTwoRuns /\ [][NextTwoRuns]_vars

-----------------------------------------------------------------------------
(* Config serialization.  A text is a sequence of characters (one-character *)
(* strings); a mapping is [type |-> "dict", items |-> its (key, value)      *)
(* entries in insertion order]; a JSON value is [t |-> "int" | "str" |      *)
(* "null", v |-> its digits or characters].                                *)

\* largest number of keys of a mapping
MaxKeys == 2
\* largest length of a key
MaxKeyLen == 2

\* the characters of keys, in code point order
KeyChars == <<"\"", "\\", "a">>

CharRank(c) == CHOOSE i \in DOMAIN KeyChars : KeyChars[i] = c

\* k1 < k2 as Python compares strings
RECURSIVE KeyLess(_, _)
KeyLess(k1, k2) ==
  IF k2 = <<>> THEN FALSE
  ELSE IF k1 = <<>> THEN TRUE
  ELSE IF Head(k1) = Head(k2) THEN KeyLess(Tail(k1), Tail(k2))
  ELSE CharRank(Head(k1)) < CharRank(Head(k2))

\* sorted(dd.items(), key=lambda x: x[0])
SortedItems(items) ==
  LET n      == Len(items)
      pos(i) == Cardinality({j \in 1 .. n : KeyLess(items[j].key, items[i].key)}) + 1
  IN  [k \in 1 .. n |-> items[CHOOSE i \in 1 .. n : pos(i) = k]]

\* the characters of a string with `"` and `\` escaped, as json.dumps does
RECURSIVE Escape(_)
Escape(str) ==
  IF str = <<>> THEN <<>>
  ELSE (IF Head(str) \in {"\"", "\\"} THEN <<"\\", Head(str)>> ELSE <<Head(str)>>)
         \o Escape(Tail(str))

json_dumps(value) ==
  CASE value.t = "int"  -> value.v
    [] value.t = "null" -> <<"n", "u", "l", "l">>
    [] value.t = "str"  -> <<"\"">> \o Escape(value.v) \o <<"\"">>

\* ",\n".join(lines)
RECURSIVE Join(_)
Join(lines) ==
  IF lines = <<>> THEN <<>>
  ELSE IF Len(lines) = 1 THEN lines[1]
  ELSE lines[1] \o <<",", "\n">> \o Join(Tail(lines))

\* "\"%s\":%s" % (l, json.dumps(n)): the key goes into the text as it is
Line(entry) == <<"\"">> \o entry.key \o <<"\"", ":">> \o json_dumps(entry.val)

pretty_json_dumps(dd) ==
  IF dd.type # "dict"
  THEN [raised |-> TRUE, text |-> <<>>]
  ELSE LET sorted == SortedItems(dd.items)
           lines  == [i \in DOMAIN sorted |-> Line(sorted[i])]
       IN  [raised |-> FALSE, text |-> <<"{", "\n">> \o Join(lines) \o <<"\n", "}">>]

\* dd[key] = val
SetItemIn(items, key, val) ==
  IF \E i \in DOMAIN items : items[i].key = key
  THEN [i \in DOMAIN items |->
          IF items[i].key = key THEN [val |-> val, key |-> key] ELSE items[i]]
  ELSE Append(items, [val |-> val, key |-> key])

\* the mapping as its set of (key, value) pairs: what == compares
Pairs(items) == {items[i] : i \in DOMAIN items}

-----------------------------------------------------------------------------
(* A standard JSON parser (json.loads), for objects of scalar values *)

Digits == {"0", "1", "2", "3", "4", "5", "6", "7", "8", "9"}

Failed == [val |-> <<>>, ok |-> FALSE, next |-> 0]

At(t, i) == IF i <= Len(t) THEN t[i] ELSE "<end>"

RECURSIVE SkipWs(_, _)
SkipWs(t, i) == IF At(t, i) \in {" ", "\n"} THEN SkipWs(t, i + 1) ELSE i

\* the string whose opening quote is before position i
RECURSIVE ParseString(_, _, _)
ParseString(t, i, acc) ==
  LET c == At(t, i)
  IN  IF c = "<end>" \/ c = "\n" THEN Failed
      ELSE IF c = "\"" THEN [val |-> acc, ok |-> TRUE, next |-> i + 1]
      ELSE IF c = "\\"
      THEN LET e == At(t, i + 1)
           IN  IF e \in {"\"", "\\"} THEN ParseString(t, i + 2, Append(acc, e))
               ELSE IF e = "n" THEN ParseString(t, i + 2, Append(acc, "\n"))
               ELSE Failed
      ELSE ParseString(t, i + 1, Append(acc, c))

RECURSIVE ParseDigits(_, _, _)
ParseDigits(t, i, acc) ==
  IF At(t, i) \in Digits THEN ParseDigits(t, i + 1, Append(acc, t[i]))
  ELSE [val |-> [v |-> acc, t |-> "int"], ok |-> TRUE, next |-> i]

ParseValue(t, i) ==
  LET c == At(t, i)
  IN  IF c \in Digits THEN ParseDigits(t, i, <<>>)
      ELSE IF c = "\""
      THEN LET str == ParseString(t, i + 1, <<>>)
           IN  IF str.ok THEN [val |-> [v |-> str.val, t |-> "str"], ok |-> TRUE,
                               next |-> str.next]
               ELSE Failed
      ELSE IF c = "n" /\ At(t, i + 1) = "u" /\ At(t, i + 2) = "l" /\ At(t, i + 3) = "l"
      THEN [val |-> [v |-> <<>>, t |-> "null"], ok |-> TRUE, next |-> i + 4]
      ELSE Failed

\* the members of an object, from the quote of a key at position i
RECURSIVE ParseMembers(_, _, _)
ParseMembers(t, i, items) ==
  IF At(t, i) # "\"" THEN Failed
  ELSE LET key == ParseString(t, i + 1, <<>>)
       IN  IF ~key.ok THEN Failed
           ELSE LET colon == SkipWs(t, key.next)
                IN  IF At(t, colon) # ":" THEN Failed
                    ELSE LET value == ParseValue(t, SkipWs(t, colon + 1))
                         IN  IF ~value.ok THEN Failed
                             ELSE LET more == SetItemIn(items, key.val, value.val)
                                      sep  == SkipWs(t, value.next)
                                  IN  IF At(t, sep) = ","
                                      THEN ParseMembers(t, SkipWs(t, sep + 1), more)
                                      ELSE IF At(t, sep) = "}"
                                      THEN [val |-> more, ok |-> TRUE, next |-> sep + 1]
                                      ELSE Failed

json_loads(t) ==
  LET open == SkipWs(t, 1)
  IN  IF At(t, open) # "{" THEN Failed
      ELSE LET first == SkipWs(t, open + 1)
               obj   == IF At(t, first) = "}"
                        THEN [val |-> <<>>, ok |-> TRUE, next |-> first + 1]
                        ELSE ParseMembers(t, first, <<>>)
           IN  IF obj.ok /\ SkipWs(t, obj.next) = Len(t) + 1 THEN obj ELSE Failed

-----------------------------------------------------------------------------
(* A caller builds a mapping and serializes it *)

RECURSIVE StringsUpTo(_)
StringsUpTo(n) ==
  IF n = 0 THEN {<<>>}
  ELSE LET shorter == StringsUpTo(n - 1)
       IN  shorter \cup {Append(str, KeyChars[i]) : str \in shorter, i \in DOMAIN KeyChars}

JsonKeys == StringsUpTo(MaxKeyLen)

JsonValues ==
  {[v |-> <<"7">>, t |-> "int"], [v |-> <<>>, t |-> "null"],
   [v |-> <<"a", "\"">>, t |-> "str"]}

InitJson ==
  /\ rng = RandomState(0) /\ fperr = 0 /\ dictOrder = 0
  /\ rng2 = RandomState(0) /\ dictOrder2 = 0
  /\ op = "init" /\ origin = "none" /\ out = <<>> /\ out2 = <<>> /\ heap = <<>>
  /\ arg = [items |-> <<>>, type |-> "dict"]

\* dd[key] = value, while the mapping is being built
SetItem ==
  /\ op \in {"init", "setitem"}
  /\ \E key \in JsonKeys, value \in JsonValues :
       /\ (Len(arg.items) < MaxKeys \/ \E i \in DOMAIN arg.items : arg.items[i].key = key)
       /\ arg' = [arg EXCEPT !.items = SetItemIn(arg.items, key, value)]
  /\ op' = "setitem" /\ origin' = "input" /\ out' = <<>>
  /\ UNCHANGED <<rng, fperr, dictOrder, rng2, dictOrder2, out2, heap>>

PrettyJsonDumps ==
  /\ op \in {"init", "setitem"}
  /\ op' = "pretty_json_dumps" /\ origin' = "input"
  /\ out' = pretty_json_dumps(arg)
  /\ UNCHANGED <<rng, fperr, dictOrder, arg, rng2, dictOrder2, out2, heap>>

\* pretty_json_dumps of a list: not a mapping
PrettyJsonDumpsOfList ==
  /\ op = "init"
  /\ op' = "pretty_json_dumps" /\ origin' = "input"
  /\ arg' = [items |-> <<>>, type |-> "list"]
  /\ out' = pretty_json_dumps(arg')
  /\ UNCHANGED <<rng, fperr, dictOrder, rng2, dictOrder2, out2, heap>>

NextJson == SetItem \/ PrettyJsonDumps \/ PrettyJsonDumpsOfList

SpecJson == InitJson /\ [][NextJson]_vars

-----------------------------------------------------------------------------
(* Properties *)

DatasetGets ==
  {"get_image_dataset", "get_text_dataset", "get_char_lm_dataset", "get_word_lm_dataset"}

\* C1: for every dataset family and registry name, a materialized config
\* whose just_train flag is true yields a bundle whose four slots are all the
\* train pipeline of the provider's bundle, and the provider's bundle as it is
\* when the flag is false.
JustTrainCollapsesEveryFamily ==
  (op \in DatasetGets /\ origin = "stored" /\ out.status = "ok") =>
    LET provided == ProviderBundle(out.calls[1])
    IN  out.ret[1] = IF arg[2].just_train
                     THEN Datasets(provided.train, provided.train,
                                   provided.train, provided.train)
                     ELSE provided

\* every entry of a list can be the one a uniform choice returns
EveryEntryCanBeChosen(seq) ==
  \A i \in DOMAIN seq : \E w \in 0 .. (WordMod - 1) : UniformIndex(Len(seq), w) = i

\* every name of a weighted catalog can be the one the weighted choice returns
EveryNameCanBeDrawn(items) ==
  \A i \in DOMAIN items :
    \E s \in Seeds :
      ChoiceP(RandomState(s), NamesOf(items), WeightsOf(items)).val = items[i].name

EveryRegistryNameIsReachable ==
  \A rot \in Rotations :
    /\ EveryNameCanBeDrawn(SortedActivations[rot])
    /\ Keys(SortedActivations[rot]) = Keys(_activation_fn_map)
    /\ EveryNameCanBeDrawn(SortedInitializers[rot])
    /\ Keys(SortedInitializers[rot]) = Keys(_initializer_name_map)
    /\ EveryEntryCanBeChosen(CoreNames)
    /\ \A reg \in {<<SortedImageNames, _name_to_image_dataset_map>>,
                   <<SortedTextNames, _name_to_text_dataset_map>>,
                   <<SortedCharNames, _name_to_char_sequence_dataset_map>>,
                   <<SortedWordNames, _name_to_word_sequence_dataset_map>>} :
         /\ EveryEntryCanBeChosen(reg[1][rot])
         /\ {reg[1][rot][i] : i \in DOMAIN reg[1][rot]} = Keys(reg[2])

SamplingIsDeterministic == out = out2 /\ rng = rng2

\* both runs sampled an image dataset with an augmentation, in interpreters
\* that iterate the registries differently
SamplingIsDeterministicWitness ==
  /\ op = "sample_image_dataset" /\ dictOrder # dictOrder2
  /\ ~IsNone(out[3]) /\ Len(rng.log) > 8

\* the name a get_* looks up, and the names its registry holds
LookedUp == IF op = "get_activation" THEN arg ELSE arg[1]

RegistryNames ==
  CASE op = "get_activation"      -> Keys(_activation_fn_map)
    [] op = "get_initializer"     -> Keys(_initializer_name_map)
    [] op = "get_rnn_core"        -> {CoreNames[i] : i \in DOMAIN CoreNames}
    [] op = "get_image_dataset"   -> Keys(_name_to_image_dataset_map)
    [] op = "get_text_dataset"    -> Keys(_name_to_text_dataset_map)
    [] op = "get_char_lm_dataset" -> Keys(_name_to_char_sequence_dataset_map)
    [] op = "get_word_lm_dataset" -> Keys(_name_to_word_sequence_dataset_map)

Gets ==
  {"get_activation", "get_initializer", "get_rnn_core"} \cup DatasetGets

\* C4: a get_* given a config whose name its registry does not hold ends in an
\* error that carries that name, returns nothing, and has called no external
\* constructor and no pipeline provider.
UnknownNameFailsFast ==
  (op \in Gets /\ LookedUp \notin RegistryNames) =>
    /\ out.status \in {"KeyError", "ValueError"}
    /\ out.key = LookedUp
    /\ out.ret = <<>>
    /\ out.calls = <<>>

\* the text registry was asked for "imdb_reviews/bytes", a literal of its
\* list that is no key, with a config that is otherwise fine
UnknownNameFailsFastWitness ==
  /\ op = "get_text_dataset" /\ arg[1] = "imdb_reviews/bytes"
  /\ out.status = "KeyError"

\* C5: get_initializer((name, parameter)) calls the constructor registered
\* for name with the parameter whenever the parameter is present, zero
\* included, and with no arguments exactly when it is absent.
InitializerGetsItsParameter ==
  (op = "get_initializer" /\ arg[1] \in Keys(_initializer_name_map)) =>
    /\ ~IsNone(arg[2]) => out.make_fn_args = <<arg[2][1]>>
    /\ IsNone(arg[2]) <=> out.make_fn_args = <<>>

\* C6: the ten literals of the text registry's list make nine keys, one of
\* them the concatenation of the first two, and for every key
\* get_text_dataset calls the provider with "imdb_reviews/subwords8k".
TextRegistryIsCollapsed ==
  /\ Len(TextDatasetLiterals) = 10
  /\ Cardinality(Keys(_name_to_text_dataset_map)) = 9
  /\ "imdb_reviews/subwords8kimdb_reviews/bytes" \in Keys(_name_to_text_dataset_map)
  /\ (op = "get_text_dataset" /\ arg[1] \in Keys(_name_to_text_dataset_map)) =>
       /\ out.status = "ok"
       /\ Len(out.calls) = 1
       /\ out.calls[1].fn = "datasets.random_slice_text_data"
       /\ out.calls[1].dataset_name = "imdb_reviews/subwords8k"

\* a key other than the fixed name was materialized
TextRegistryIsCollapsedWitness ==
  /\ op = "get_text_dataset" /\ out.status = "ok"
  /\ arg[1] = "tokenized_amazon_reviews/Home_v1_00_bytes"

\* C7: parsing pretty_json_dumps(cfg) gives back a mapping equal to cfg,
\* whatever characters the keys hold and whatever their insertion order, and
\* the text lists the keys in lexicographic order, so that it does not depend
\* on the insertion order.
JsonRoundTrips ==
  (op = "pretty_json_dumps" /\ arg.type = "dict") =>
    LET parsed == json_loads(out.text)
    IN  /\ ~out.raised
        /\ parsed.ok
        /\ Pairs(parsed.val) = Pairs(arg.items)
        /\ \A i, j \in DOMAIN parsed.val :
             i < j => KeyLess(parsed.val[i].key, parsed.val[j].key)

IntSamplers == {"sample_log_int", "sample_linear_int"}

\* C8 as amended: sample_log_int and sample_linear_int return an integer v
\* with low <= v <= high, rounding included; sample_log_float returns a float
\* within the rounding error of exp(log(.)) of [low, high].
ScalarSamplesWithinBounds ==
  /\ op \in IntSamplers => (arg[1] <= out /\ out <= arg[2])
  /\ op = "sample_log_float" =>
       /\ arg[1] * FloatScale - MaxUlpErr <= out
       /\ out <= arg[2] * FloatScale + MaxUlpErr

\* a log-scale integer was drawn at its lower bound on a build whose
\* exp(log(low)) falls below low
ScalarSamplesWithinBoundsWitness ==
  /\ op = "sample_log_int" /\ fperr < 0 /\ out = arg[1]
  /\ rng.log = <<"uniform">>

\* C8: the three samplers return a value v with low <= v <= high.
ScalarSamplesStrictlyWithinBounds ==
  /\ op \in IntSamplers => (arg[1] <= out /\ out <= arg[2])
  /\ op = "sample_log_float" =>
       (arg[1] * FloatScale <= out /\ out <= arg[2] * FloatScale)

\* C9: the function get_augmentation returns leaves the caller's example
\* record and the augmentation config as they were, and returns another
\* record with the same fields, equal to the input in all but the image.
AugmentLeavesItsInputAlone ==
  op = "augment" =>
    /\ heap[arg.example] = arg.heap[arg.example]
    /\ heap[arg.cfg] = arg.heap[arg.cfg]
    /\ out \in DOMAIN heap /\ out # arg.example /\ out # arg.cfg
    /\ DOMAIN heap[out] = DOMAIN arg.heap[arg.example]
    /\ \A f \in DOMAIN heap[out] \ {"image"} : heap[out][f] = arg.heap[arg.example][f]

\* an augmentation that cropped and colored a 3-channel image returned
AugmentLeavesItsInputAloneWitness ==
  /\ op = "augment"
  /\ Len(heap[out].image.ops) = 5
  /\ heap[arg.example].image.ops = <<>>

IsInitializerConfig(c) ==
  /\ Len(c) = 2
  /\ c[1] \in Keys(_initializer_name_map)
  /\ (IsNone(c[2]) \/ Len(c[2]) = 1)

\* the shape of a sampled core whose first kind is named `vanilla`
RnnCoreShape(vanilla) ==
  LET kind == out[1]
      args == out[2]
      slots == CASE kind = "lstm" -> {"w_gates"}
                 [] kind = "gru" -> {"wh", "wz", "wr", "uh", "uz", "ur"}
                 [] OTHER -> {"hidden_to_hidden", "in_to_hidden"}
  IN  /\ kind \in {vanilla, "gru", "lstm"}
      /\ DOMAIN args = slots \cup {"core_dim"}
                         \cup (IF kind = vanilla THEN {"act_fn"} ELSE {})
      /\ \A k \in slots : IsInitializerConfig(args[k])
      /\ args["core_dim"] \in 32 .. 128
      /\ kind = vanilla => args["act_fn"] \in Keys(_activation_fn_map)
      /\ get_rnn_core(out).status = "ok"

\* C10 as amended: sample_rnn_core returns (kind, params) with kind in
\* {vrnn, gru, lstm} and the key set of that kind; every initializer slot is a
\* (name, parameter-or-null) pair of the catalog, core_dim is an integer in
\* [32, 128], and get_rnn_core accepts the result.
RnnCoreHasTheShapeOfItsKind == op = "sample_rnn_core" => RnnCoreShape("vrnn")

\* a vanilla core with two separately sampled initializers
RnnCoreHasTheShapeOfItsKindWitness ==
  /\ op = "sample_rnn_core" /\ out[1] = "vrnn"
  /\ out[2]["hidden_to_hidden"] # out[2]["in_to_hidden"]

\* C10: the same, with the kinds {vanilla, gru, lstm}.
RnnCoreKindIsVanillaGruOrLstm == op = "sample_rnn_core" => RnnCoreShape("vanilla")

\* the steps of an augmentation, in the order the claim gives them
AugmentationSteps ==
  << "random_crop", "random_flip_left_right", "random_flip_up_down",
     "random_brightness", "random_saturation", "random_hue", "random_contrast" >>

StepRank(name) == CHOOSE i \in DOMAIN AugmentationSteps : AugmentationSteps[i] = name

ColorSteps == {AugmentationSteps[i] : i \in 4 .. 7}

\* C11: the function get_augmentation returns applies crop, left-right flip,
\* up-down flip, brightness, saturation, hue, contrast in that order; each of
\* the first three exactly when its config field is set, the crop taking
\* crop_amount off the height and the width and keeping the channels; the
\* four color steps exactly when do_color_aug is set and the image has 3
\* channels, with the magnitudes of the config; an image with another channel
\* count gets no color step and the call returns.
AugmentationStepsInOrder ==
  op = "augment" =>
    LET cfg     == arg.heap[arg.cfg]
        before  == arg.heap[arg.example].image
        after   == heap[out].image
        applied == {after.ops[i].op : i \in DOMAIN after.ops}
        colored == cfg.do_color_aug /\ before.shape[3] = 3
    IN  /\ out \in DOMAIN heap
        /\ applied \subseteq {AugmentationSteps[i] : i \in DOMAIN AugmentationSteps}
        /\ \A i, j \in DOMAIN after.ops :
             i < j => StepRank(after.ops[i].op) < StepRank(after.ops[j].op)
        /\ "random_crop" \in applied <=> cfg.crop_amount # 0
        /\ "random_flip_left_right" \in applied <=> cfg.flip_left_right
        /\ "random_flip_up_down" \in applied <=> cfg.flip_up_down
        /\ \A step \in ColorSteps : step \in applied <=> colored
        /\ after.shape = <<before.shape[1] - cfg.crop_amount,
                           before.shape[2] - cfg.crop_amount, before.shape[3]>>
        /\ \A i \in DOMAIN after.ops :
             after.ops[i].param =
               CASE after.ops[i].op = "random_crop" -> cfg.crop_amount
                 [] after.ops[i].op = "random_brightness" -> cfg.brightness
                 [] after.ops[i].op = "random_saturation" -> cfg.saturation
                 [] after.ops[i].op = "random_hue" -> cfg.hue
                 [] after.ops[i].op = "random_contrast" -> cfg.contrast
                 [] OTHER -> 0

\* a 1-channel image went through an augmentation that crops, flips both
\* ways and has do_color_aug set: it came back with the three steps only
AugmentationStepsInOrderWitness ==
  /\ op = "augment"
  /\ arg.heap[arg.cfg].do_color_aug
  /\ arg.heap[arg.cfg].crop_amount = 2
  /\ arg.heap[arg.example].image.shape[3] = 1
  /\ Len(heap[out].image.ops) = 3

=============================================================================
